---- MODULE Spec2Model ----
(***************************************************************************)
(* Job pipeline of app/main.py: the process-wide job map, the detached     *)
(* orchestrator process_report_task, the retry wrapper                     *)
(* run_openai_with_retry, the progress stream generator and the download   *)
(* handler.  One action is one run of a coroutine from one suspension      *)
(* point (await / yield) to the next: the event loop is cooperative, so    *)
(* the synchronous code between two suspension points is atomic.           *)
(*                                                                         *)
(* Texts are TLA+ strings.  The text of a prompt is not modelled: the      *)
(* completion service is an external collaborator whose answer is an       *)
(* arbitrary choice among Contents, or a failure among Errors.             *)
(***************************************************************************)
EXTENDS Integers, Sequences, FiniteSets, TLC

\* ------------------------------------------------------------------ bounds
\* Largest max_attempts a direct caller passes to the wrapper.
MaxAttemptsArg == 4
\* random.uniform(0, 1) is cut into JitterSteps equal parts; a wait time is
\* counted in units of 1/JitterSteps second.
JitterSteps == 2
\* Largest number of named files a client puts into one upload request.
MaxFiles == 2

\* -------------------------------------------------------- program constants
SUMMARY_ATTEMPTS == 3
FINAL_ATTEMPTS == 5

\* Python's None (report_content before success, an absent message content).
None == "<None>"

\* What the completion service can answer with (the message content of a
\* final completion, and of a summary), and how it can fail.
Contents == {None, "", "# Report\n- finding"}
SummaryContents == {"SQL injection in login"}
Errors == {"APITimeoutError", "RateLimitError"}

VARIABLES
    jobs,       \* jobs: job_id -> {files, status_updates, is_complete, report_content}
    task,       \* job_id -> frame of its process_report_task coroutine
    uuids,      \* identifiers uuid.uuid4() has not produced yet
    calls,      \* job_id -> the completion calls its orchestrator was seen to make
    stream,     \* frame of the event_generator of the current stream connection
    sent,       \* messages the current stream connection has yielded, in order
    response,   \* the latest HTTP response of an upload / download / stream request
    retry,      \* frame of a direct run_openai_with_retry invocation
    outcomes,   \* outcomes of the underlying calls of that invocation, in order
    sleeps,     \* wait times of that invocation's asyncio.sleep calls, in order
    environ,    \* os.environ after load_dotenv(): variable name -> value, None if unset
    process     \* the server process: importing the module, serving, or exited,
                \* and the module's configuration globals

vars == <<jobs, task, uuids, calls, stream, sent, response, retry, outcomes, sleeps,
          environ, process>>

jobVars == <<jobs, task, uuids, calls>>
streamVars == <<stream, sent>>
retryVars == <<retry, outcomes, sleeps>>
moduleVars == <<environ, process>>

\* The identifiers uuid.uuid4() produces: one job is created in a behaviour,
\* and before its creation its identifier is that of an unknown job.
JobIds == {"1b4e28ba-2fa1-11d2"}

\* An HTTP response: the status, the detail or JSON text, and for a download
\* the document.
Reply(request, job_id, status, text, document) ==
    [request |-> request, job_id |-> job_id, status |-> status,
     text |-> text, document |-> document]

\* ================================================================== startup
\* lines 107-111: the variables the module reads when it is imported.
EnvNames == {"AZURE_OPENAI_ENDPOINT", "AZURE_OPENAI_API_KEY",
             "AZURE_OPENAI_DEPLOYMENT_NAME", "API_VERSION"}

\* A variable is unset (None), set to the empty string, or set to a value.
EnvValues == {None, "", "configured"}

\* os.getenv(name, default)
getenv(env, name, default) == IF env[name] = None THEN default ELSE env[name]

\* str(value): the text "None" for None, a string as it is.
str(value) == IF value = None THEN "None" ELSE value

\* line 113: all([...]) of strings, each true unless empty.
all(values) == \A i \in 1 .. Len(values) : values[i] # ""

\* lines 106-121: the module-level try block, run once when the server imports
\* the module.  `constructed` tells whether the AzureOpenAI constructor of the
\* installed library accepts the arguments or raises; any exception of the
\* block is logged and the process exits.
ClientSetup(env, constructed) ==
    LET azure_endpoint == str(getenv(env, "AZURE_OPENAI_ENDPOINT", None))
        api_key == str(getenv(env, "AZURE_OPENAI_API_KEY", None))
        deployment_name == str(getenv(env, "AZURE_OPENAI_DEPLOYMENT_NAME", None))
        api_version == str(getenv(env, "API_VERSION", "2023-12-01-preview"))
        config == [azure_endpoint |-> azure_endpoint, api_key |-> api_key,
                   deployment_name |-> deployment_name, api_version |-> api_version]
    IN  IF ~all(<<azure_endpoint, api_key, deployment_name>>)
        THEN [pc |-> "exited", check |-> "failed", config |-> config]
        ELSE IF ~constructed
        THEN [pc |-> "exited", check |-> "passed", config |-> config]
        ELSE [pc |-> "serving", check |-> "passed", config |-> config]

\* The process before the module is imported.
Importing ==
    [pc |-> "importing", check |-> "none",
     config |-> [azure_endpoint |-> None, api_key |-> None,
                 deployment_name |-> None, api_version |-> None]]

\* The server imports the module.
ModuleImport ==
    /\ process.pc = "importing"
    /\ \E constructed \in BOOLEAN : process' = ClientSetup(environ, constructed)
    /\ UNCHANGED <<environ, jobVars, streamVars, response, retryVars>>

\* A deployment with every variable set, whose process came up.
FullEnvironment == [name \in EnvNames |-> "configured"]

Configured ==
    /\ environ = FullEnvironment
    /\ process = ClientSetup(FullEnvironment, TRUE)

\* ============================================================ retry wrapper
Pow2(n) == 2 ^ n

\* line 161: wait_time = (2 ** attempt) + random.uniform(0, 1), in units of
\* 1/JitterSteps second; jitter \in 0..JitterSteps.
\* (WaitTimeLinear: the same with 2 * attempt for 2 ** attempt.)
WaitTimeLinear(attempt, jitter) == (2 * attempt) * JitterSteps + jitter
WaitTime(attempt, jitter) == Pow2(attempt) * JitterSteps + jitter

\* lines 145-148 and 164: entering the wrapper.  range(max_attempts) is empty
\* for max_attempts <= 0, and the function then falls through to return "".
\* (run_openai_with_retryOneMore: the same looping over range(max_attempts + 1).)
run_openai_with_retryOneMore(max_attempts) ==
    IF max_attempts + 1 > 0
    THEN [max_attempts |-> max_attempts + 1, attempt |-> 0, status |-> "calling",
          result |-> None]
    ELSE [max_attempts |-> max_attempts + 1, attempt |-> 0, status |-> "returned",
          result |-> ""]
run_openai_with_retry(max_attempts) ==
    IF max_attempts > 0
    THEN [max_attempts |-> max_attempts, attempt |-> 0, status |-> "calling", result |-> None]
    ELSE [max_attempts |-> max_attempts, attempt |-> 0, status |-> "returned", result |-> ""]

\* lines 155-156: the underlying call succeeded with message content `content`.
CallSucceeds(r, content) ==
    [r EXCEPT !.status = "returned",
              !.result = IF content = None \/ content = "" THEN "" ELSE content]

\* lines 157-163: the underlying call raised `e`.
\* (CallFailsEarlyRaise: the same giving up one attempt early.)
CallFailsEarlyRaise(r, e) ==
    IF r.attempt >= r.max_attempts - 2
    THEN [r EXCEPT !.status = "raised", !.result = e]
    ELSE [r EXCEPT !.status = "sleeping"]
CallFails(r, e) ==
    IF r.attempt = r.max_attempts - 1
    THEN [r EXCEPT !.status = "raised", !.result = e]
    ELSE [r EXCEPT !.status = "sleeping"]

\* lines 163, 147, 164: asyncio.sleep returned; next iteration of the for loop.
SleepReturns(r) ==
    IF r.attempt + 1 < r.max_attempts
    THEN [r EXCEPT !.attempt = @ + 1, !.status = "calling"]
    ELSE [r EXCEPT !.attempt = @ + 1, !.status = "returned", !.result = ""]

\* ---------------------------------------- a direct invocation of the wrapper
RetryInit ==
    /\ \E m \in -1 .. MaxAttemptsArg : retry = run_openai_with_retry(m)
    /\ outcomes = <<>>
    /\ sleeps = <<>>

\* The underlying completion call returns.
RetryCallReturns ==
    /\ retry.status = "calling"
    /\ \E c \in Contents :
        /\ retry' = CallSucceeds(retry, c)
        /\ outcomes' = Append(outcomes, [ok |-> TRUE, value |-> c])
    /\ UNCHANGED sleeps

\* The underlying completion call raises.
RetryCallRaises ==
    /\ retry.status = "calling"
    /\ \E e \in Errors, jitter \in 0 .. JitterSteps :
        /\ retry' = CallFails(retry, e)
        /\ outcomes' = Append(outcomes, [ok |-> FALSE, value |-> e])
        /\ sleeps' = IF retry'.status = "sleeping"
                     THEN Append(sleeps, WaitTime(retry.attempt, jitter))
                     ELSE sleeps

\* The backoff sleep is over.
RetrySleepReturns ==
    /\ retry.status = "sleeping"
    /\ retry' = SleepReturns(retry)
    /\ UNCHANGED <<outcomes, sleeps>>

\* ================================================================ utilities
\* lines 124-127: count_tokens(text) = len(text) // 4.
TokensOfLength(n) == n \div 4
count_tokens(text) == TokensOfLength(Len(text))

\* lines 27-98: len(PROMPT_TEMPLATE.format(consolidated_content="")).
TemplateLen == 3402
\* line 129
BASE_PROMPT_TOKENS == TokensOfLength(TemplateLen)

\* str.join
RECURSIVE Join(_, _)
Join(sep, parts) ==
    IF parts = <<>> THEN ""
    ELSE IF Len(parts) = 1 THEN parts[1]
    ELSE parts[1] \o sep \o Join(sep, Tail(parts))

\* The format spec "{n:,}": decimal digits with a comma every three digits.
Pad3(n) == IF n < 10 THEN "00" \o ToString(n)
           ELSE IF n < 100 THEN "0" \o ToString(n) ELSE ToString(n)
RECURSIVE Thousands(_)
Thousands(n) ==
    IF n < 1000 THEN ToString(n)
    ELSE Thousands(n \div 1000) \o "," \o Pad3(n % 1000)

\* str.endswith
EndsWith(s, suffix) ==
    /\ Len(s) >= Len(suffix)
    /\ SubSeq(s, Len(s) - Len(suffix) + 1, Len(s)) = suffix

\* ================================================================== uploads
\* The files of a client, in the order in which it attaches them, and a part
\* with an empty filename.
ClientFiles == <<
    [filename |-> "a.txt", data |-> "Critical SQL injection in login"],
    [filename |-> "b.pdf", data |-> "%PDF Low severity: outdated library"],
    [filename |-> "c.pdf", data |-> "not a PDF document"],
    [filename |-> "d.txt", data |-> ""] >>
EmptyNamed == [filename |-> "", data |-> ""]

\* An absent form field (File(None)).
NoFile == [filename |-> None, data |-> None]

\* lines 131-143: get_text_from_file.  PyMuPDF extracts the text of a PDF
\* document (what follows its "%PDF " signature here) and fails on other bytes,
\* which leaves text_content empty; other files are decoded as UTF-8.
get_text_from_file(file) ==
    IF file.filename # "" /\ EndsWith(file.filename, ".pdf")
    THEN IF Len(file.data) >= 5 /\ SubSeq(file.data, 1, 5) = "%PDF "
         THEN SubSeq(file.data, 6, Len(file.data))
         ELSE ""
    ELSE file.data

\* line 228: files = [f for f in [file1, file2, file3, file4] if f and f.filename]
\* (KeepEvery: every part that was sent, named or not.)
KeepEvery(fields) == SelectSeq(fields, LAMBDA f : f # NoFile)
KeepNamed(fields) == SelectSeq(fields, LAMBDA f : f # NoFile /\ f.filename # "")

\* The requests a client sends: four form fields, each absent, a part with an
\* empty filename, or one of the client's files; the client attaches its
\* first n files, n <= MaxFiles, in order.
UploadRequests ==
    { [i \in 1 .. 4 |->
          IF i \in at THEN ClientFiles[Cardinality({j \in at : j <= i})] ELSE rest[i]] :
      at \in {fs \in SUBSET (1 .. 4) : Cardinality(fs) <= MaxFiles},
      rest \in [1 .. 4 -> {NoFile, EmptyNamed}] }

\* ============================================================= orchestrator
\* lines 169-170
\* (update_status_front: the same inserting at the head of the list.)
update_status_front(job, message, message_type) ==
    [job EXCEPT !.status_updates =
        <<[type |-> message_type, content |-> message]>> \o @]
update_status(job, message, message_type) ==
    [job EXCEPT !.status_updates =
        Append(@, [type |-> message_type, content |-> message])]

EmptyResponseMessage ==
    "The AI returned an empty response. This can be caused by content filters."

\* lines 203-209: the except clause and the finally clause.
\* (FailNoFinally: the same with is_complete set on the success path only.)
FailNoFinally(job, fr, e) ==
    [job   |-> update_status(job,
                    "An error occurred during report processing: " \o e, "error"),
     frame |-> [fr EXCEPT !.pc = "finished"]]
Fail(job, fr, e) ==
    [job   |-> [update_status(job,
                    "An error occurred during report processing: " \o e,
                    "error") EXCEPT !.is_complete = TRUE],
     frame |-> [fr EXCEPT !.pc = "finished"]]

\* lines 200-202 and 208-209: the end of the try block and the finally clause.
\* (SucceedAwaiting: the same stopping after line 200; SucceedWithText: the
\* same with the report text as the content of the event.)
SucceedAwaiting(job, fr, report_markdown) ==
    [job   |-> [job EXCEPT !.report_content = report_markdown],
     frame |-> [fr EXCEPT !.pc = "finished"]]
SucceedWithText(job, fr, report_markdown) ==
    [job   |-> [update_status([job EXCEPT !.report_content = report_markdown],
                    report_markdown, "report")
                EXCEPT !.is_complete = TRUE],
     frame |-> [fr EXCEPT !.pc = "finished"]]
Succeed(job, fr, report_markdown) ==
    [job   |-> [update_status([job EXCEPT !.report_content = report_markdown],
                    "Report content generated.", "report")
                EXCEPT !.is_complete = TRUE],
     frame |-> [fr EXCEPT !.pc = "finished"]]

\* lines 195-209: the final completion returned report_markdown.
\* (AfterFinalReportFirst: the same with the emptiness test of line 197 made
\* after lines 200-201.)
\* (AfterFinalStoreFirst: the same with line 200 moved before the test.)
AfterFinalStoreFirst(job, fr, report_markdown) ==
    IF report_markdown = ""
    THEN Fail([job EXCEPT !.report_content = report_markdown], fr, EmptyResponseMessage)
    ELSE Succeed(job, fr, report_markdown)
\* (AfterFinalUnchecked: the same without the test of line 197.)
AfterFinalUnchecked(job, fr, report_markdown) == Succeed(job, fr, report_markdown)
AfterFinalReportFirst(job, fr, report_markdown) ==
    IF report_markdown = ""
    THEN Fail(Succeed(job, fr, report_markdown).job, fr, EmptyResponseMessage)
    ELSE Succeed(job, fr, report_markdown)
AfterFinal(job, fr, report_markdown) ==
    IF report_markdown = ""
    THEN Fail(job, fr, EmptyResponseMessage)
    ELSE Succeed(job, fr, report_markdown)

\* (ResumeSkippingFailed: the same reporting a failed summary and going on to
\* the next document.)
ResumeSkippingFailed(job, fr, call) ==
    CASE call.status = "returned" /\ fr.pc = "summary" ->
            [job |-> job,
             frame |-> [fr EXCEPT
                !.call = call,
                !.all_summaries = Append(@, "--- Summary from "
                    \o job.files[fr.idx].filename \o " ---\n" \o call.result),
                !.pc = "pause"]]
      [] call.status = "returned" /\ fr.pc = "final" ->
            AfterFinal(job, [fr EXCEPT !.call = call], call.result)
      [] call.status = "raised" /\ fr.pc = "summary" ->
            [job |-> update_status(job,
                        "An error occurred during report processing: " \o call.result,
                        "error"),
             frame |-> [fr EXCEPT !.call = call, !.pc = "pause"]]
      [] call.status = "raised" /\ fr.pc = "final" ->
            Fail(job, [fr EXCEPT !.call = call], call.result)
      [] OTHER ->
            [job |-> job, frame |-> [fr EXCEPT !.call = call]]

\* lines 181-184 and 195-209: the orchestrator after a step of the wrapper it
\* awaits left the wrapper's frame as `call`.
Resume(job, fr, call) ==
    CASE call.status = "returned" /\ fr.pc = "summary" ->
            [job   |-> job,
             frame |-> [fr EXCEPT
                 !.call = call,
                 !.all_summaries = Append(@,
                     "--- Summary from " \o job.files[fr.idx].filename
                        \o " ---\n" \o call.result),
                 !.pc = "pause"]]
      [] call.status = "returned" /\ fr.pc = "final" ->
            AfterFinal(job, [fr EXCEPT !.call = call], call.result)
      [] call.status = "raised" ->
            Fail(job, [fr EXCEPT !.call = call], call.result)
      [] OTHER ->
            [job |-> job, frame |-> [fr EXCEPT !.call = call]]

\* lines 175-181 and 186-195: the head of the for loop with fr.idx documents
\* done, up to the next completion call.
LoopHead(job, fr) ==
    IF fr.idx < Len(job.files)
    THEN Resume(
            update_status(job,
                "Summarizing file: " \o job.files[fr.idx + 1].filename \o "...",
                "status"),
            [fr EXCEPT !.idx = @ + 1, !.pc = "summary"],
            run_openai_with_retry(SUMMARY_ATTEMPTS))
    ELSE LET consolidated_summaries == Join("\n\n", fr.all_summaries)
             final_token_count ==
                 TokensOfLength(TemplateLen + Len(consolidated_summaries))
         IN Resume(
            update_status(
                update_status(job,
                    "All summaries created. Generating final consolidated report...",
                    "status"),
                "Final prompt created with ~" \o Thousands(final_token_count)
                    \o " tokens. Sending to OpenAI...",
                "status"),
            [fr EXCEPT !.pc = "final"],
            run_openai_with_retry(FINAL_ATTEMPTS))

\* The frame of the wrapper when no completion call is awaited.
NoCall == [max_attempts |-> 0, attempt |-> 0, status |-> "none", result |-> None]

\* line 236: the frame of a task that was scheduled and has not run yet.
Scheduled == [pc |-> "scheduled", idx |-> 0, all_summaries |-> <<>>, call |-> NoCall]

\* lines 226-237: upload_files_for_processing, as the store, the scheduled
\* tasks, the identifiers left and the reply it leaves when uuid4 gives job_id
\* (which is drawn at line 234, after the check of line 229).
upload_files_for_processing(fields, job_id) ==
    LET files == KeepNamed(fields) IN
    IF files = <<>>
    THEN [jobs |-> jobs, task |-> task, uuids |-> uuids,
          response |-> Reply("upload", None, 400, "No files were uploaded.", <<>>)]
    ELSE [jobs |-> [k \in DOMAIN jobs \cup {job_id} |->
                      IF k = job_id
                      THEN [files |-> [i \in 1 .. Len(files) |->
                                [filename |-> files[i].filename,
                                 content |-> get_text_from_file(files[i])]],
                            status_updates |-> <<>>,
                            is_complete |-> FALSE,
                            report_content |-> None]
                      ELSE jobs[k]],
          task |-> [k \in DOMAIN jobs \cup {job_id} |->
                      IF k = job_id THEN Scheduled ELSE task[k]],
          uuids |-> uuids \ {job_id},
          response |-> Reply("upload", job_id, 200, job_id, <<>>)]

\* POST /upload with one of `requests`.
UploadOf(requests) ==
    /\ \E fields \in requests :
        \E job_id \in IF KeepNamed(fields) = <<>> THEN {None} ELSE uuids :
            LET after == upload_files_for_processing(fields, job_id) IN
            /\ jobs' = after.jobs
            /\ task' = after.task
            /\ uuids' = after.uuids
            /\ calls' = [k \in DOMAIN after.jobs |->
                            IF k \in DOMAIN calls THEN calls[k] ELSE <<>>]
            /\ response' = after.response
    /\ UNCHANGED <<streamVars, retryVars, moduleVars>>

Upload == UploadOf(UploadRequests)

\* (TaskStepShared: the same writing through one record shared by every job.)
TaskStepShared(job_id, next) ==
    /\ jobs' = [k \in DOMAIN jobs |-> next.job]
    /\ task' = [task EXCEPT ![job_id] = next.frame]
    /\ UNCHANGED <<uuids, streamVars, response, retryVars, moduleVars>>

\* The step of job_id's orchestrator that leaves its job and frame as `next`.
TaskStep(job_id, next) ==
    /\ jobs' = [jobs EXCEPT ![job_id] = next.job]
    /\ task' = [task EXCEPT ![job_id] = next.frame]
    /\ UNCHANGED <<uuids, streamVars, response, retryVars, moduleVars>>

\* (TaskStartSilent: the same without the status of line 173.)
TaskStartSilent(job_id) ==
    /\ task[job_id].pc = "scheduled"
    /\ TaskStep(job_id, LoopHead(jobs[job_id], task[job_id]))

\* line 149: the completion call made, if any, in a step of an orchestrator
\* that takes its frame from `before` to `after` (one when the wrapper it
\* awaits has started an attempt), with the stage and the document it is for,
\* the attempt's number and the number of summaries collected so far.
CallsMade(before, after) ==
    IF after.call.status = "calling" /\ after.call # before.call
    THEN <<[stage |-> after.pc, document |-> after.idx,
            attempt |-> after.call.attempt, max_attempts |-> after.call.max_attempts,
            summaries |-> Len(after.all_summaries)]>>
    ELSE <<>>

\* An observer of job_id's orchestrator logs the call its step makes.
Observed(job_id) ==
    calls' = [calls EXCEPT ![job_id] = @ \o CallsMade(task[job_id], task'[job_id])]

\* lines 167-181: the background task starts and runs to its first await.
TaskStart(job_id) ==
    /\ task[job_id].pc = "scheduled"
    /\ TaskStep(job_id,
         LoopHead(update_status(jobs[job_id],
                      "Starting consolidation process. Summarizing individual files...",
                      "status"),
                  task[job_id]))

\* lines 149-156: the completion call the orchestrator awaits returns.
TaskCallReturns(job_id) ==
    /\ task[job_id].pc \in {"summary", "final"}
    /\ task[job_id].call.status = "calling"
    /\ \E c \in IF task[job_id].pc = "summary" THEN SummaryContents ELSE Contents :
        TaskStep(job_id,
            Resume(jobs[job_id], task[job_id], CallSucceeds(task[job_id].call, c)))

\* lines 157-163: the completion call the orchestrator awaits raises.
TaskCallRaises(job_id) ==
    /\ task[job_id].pc \in {"summary", "final"}
    /\ task[job_id].call.status = "calling"
    /\ \E e \in Errors :
        TaskStep(job_id,
            Resume(jobs[job_id], task[job_id], CallFails(task[job_id].call, e)))

\* line 163: the backoff sleep of the awaited wrapper is over.
TaskSleepReturns(job_id) ==
    /\ task[job_id].pc \in {"summary", "final"}
    /\ task[job_id].call.status = "sleeping"
    /\ TaskStep(job_id,
            Resume(jobs[job_id], task[job_id], SleepReturns(task[job_id].call)))

\* line 184: asyncio.sleep(5) is over; back to the head of the loop.
TaskPauseReturns(job_id) ==
    /\ task[job_id].pc = "pause"
    /\ TaskStep(job_id, LoopHead(jobs[job_id], task[job_id]))

\* ================================================================= download
StartsWith(s, prefix) ==
    /\ Len(s) >= Len(prefix)
    /\ SubSeq(s, 1, Len(prefix)) = prefix

Whitespace == {" ", "\t", "\n", "\r", "\f"}

\* str.strip: from the first to the last character that is no whitespace.
Strip(s) ==
    LET inked == {i \in 1 .. Len(s) : SubSeq(s, i, i) \notin Whitespace} IN
    IF inked = {} THEN ""
    ELSE SubSeq(s, CHOOSE i \in inked : \A j \in inked : i <= j,
                   CHOOSE i \in inked : \A j \in inked : i >= j)

\* str.split(sep) for a one-character separator.
RECURSIVE Split(_, _)
Split(s, sep) ==
    LET at == {i \in 1 .. Len(s) : SubSeq(s, i, i) = sep} IN
    IF at = {} THEN <<s>>
    ELSE LET first == CHOOSE i \in at : \A j \in at : i <= j
         IN <<SubSeq(s, 1, first - 1)>> \o Split(SubSeq(s, first + 1, Len(s)), sep)

\* report_generator.py lines 14-24: what one line of the report adds to the
\* document.
LineBlocks(raw) ==
    LET line == Strip(raw) IN
    IF StartsWith(line, "### ")
    THEN <<[style |-> "Heading 3", text |-> SubSeq(line, 5, Len(line))]>>
    ELSE IF StartsWith(line, "## ")
    THEN <<[style |-> "Heading 2", text |-> SubSeq(line, 4, Len(line))]>>
    ELSE IF StartsWith(line, "# ")
    THEN <<[style |-> "Heading 1", text |-> SubSeq(line, 3, Len(line))]>>
    ELSE IF StartsWith(line, "* ") \/ StartsWith(line, "- ")
    THEN <<[style |-> "List Bullet", text |-> SubSeq(line, 3, Len(line))]>>
    ELSE IF Len(line) > 0
    THEN <<[style |-> "Normal", text |-> line]>>
    ELSE <<>>

RECURSIVE Blocks(_)
Blocks(lines) ==
    IF lines = <<>> THEN <<>> ELSE LineBlocks(Head(lines)) \o Blocks(Tail(lines))

\* report_generator.py lines 5-30: the document, as its sequence of headings
\* and paragraphs (the .docx container around them is not modelled).
create_docx_report(report_markdown) ==
    <<[style |-> "Title", text |-> "Consolidated Security Report"]>>
        \o Blocks(Split(report_markdown, "\n"))

\* lines 241-242: not (job_id not in jobs or not jobs[job_id].get("report_content"))
\* (HasReportIgnoringContent: the same without its second test.)
HasReportIgnoringContent(job_id) == job_id \in DOMAIN jobs
HasReport(job_id) ==
    /\ job_id \in DOMAIN jobs
    /\ jobs[job_id].report_content \notin {None, ""}

\* lines 239-251: what GET /download/{job_id} answers in the current state.
download_report(job_id) ==
    IF ~HasReport(job_id)
    THEN Reply("download", job_id, 404, "Report not found or not yet complete.", <<>>)
    ELSE Reply("download", job_id, 200,
               "attachment; filename=consolidated_security_report_"
                   \o SubSeq(job_id, 1, 8) \o ".docx",
               create_docx_report(jobs[job_id].report_content))

\* (DownloadOnce: the same dropping the report text once it was served.)
DownloadOnce(job_id) ==
    /\ response' = download_report(job_id)
    /\ jobs' = IF HasReport(job_id)
               THEN [jobs EXCEPT ![job_id].report_content = None]
               ELSE jobs
    /\ UNCHANGED <<task, uuids, calls, streamVars, retryVars, moduleVars>>

\* GET /download/{job_id} is served.
Download(job_id) ==
    /\ response' = download_report(job_id)
    /\ UNCHANGED <<jobVars, streamVars, retryVars, moduleVars>>

\* =================================================================== stream
\* json.dumps of a str: the escapes of the characters of s, one half of s
\* after the other.
JsonChar(c) ==
    CASE c = "\"" -> "\\\""
      [] c = "\\" -> "\\\\"
      [] c = "\n" -> "\\n"
      [] c = "\t" -> "\\t"
      [] OTHER -> c
RECURSIVE JsonEscape(_)
JsonEscape(s) ==
    CHOOSE escaped \in
        { IF Len(text) <= 1 THEN JsonChar(text)
          ELSE JsonEscape(SubSeq(text, 1, Len(text) \div 2))
                 \o JsonEscape(SubSeq(text, Len(text) \div 2 + 1, Len(text)))
          : text \in {s} } : TRUE
JsonString(s) == "\"" \o JsonEscape(s) \o "\""

\* line 267: f"data: {json.dumps(update)}\n\n"
EventMessage(update) ==
    "data: {\"type\": " \o JsonString(update.type)
        \o ", \"content\": " \o JsonString(update.content) \o "}\n\n"
\* line 271: f"data: {json.dumps({'type': 'done'})}\n\n"
DoneMessage == "data: {\"type\": \"done\"}\n\n"

NoStream == [job_id |-> None, pc |-> "none", last_sent_index |-> 0, pending |-> <<>>]

\* lines 270-274: after the if statement of a polling cycle.  `out` is what
\* the generator yields on the way.
\* (AfterLoopAlwaysDone: the same without the test of is_complete.)
AfterLoopAlwaysDone(job, fr) == [frame |-> [fr EXCEPT !.pc = "yield_done"], out |-> <<DoneMessage>>]
AfterLoop(job, fr) ==
    IF job.is_complete
    THEN [frame |-> [fr EXCEPT !.pc = "yield_done"], out |-> <<DoneMessage>>]
    ELSE [frame |-> [fr EXCEPT !.pc = "poll"], out |-> <<>>]

\* lines 261-274: a polling cycle from the answer of request.is_disconnected()
\* (`disconnected`) to the next suspension point.
Poll(job, fr, disconnected) ==
    IF disconnected
    THEN [frame |-> [fr EXCEPT !.pc = "disconnected"], out |-> <<>>]
    ELSE IF fr.last_sent_index < Len(job.status_updates)
    THEN LET slice == SubSeq(job.status_updates, fr.last_sent_index + 1,
                             Len(job.status_updates))
         IN [frame |-> [fr EXCEPT !.pc = "yield", !.pending = slice],
             out |-> <<EventMessage(slice[1])>>]
    ELSE AfterLoop(job, fr)

\* lines 266-274 and 271-272: the consumer asks the generator, suspended at a
\* yield, for its next item.
Resumed(job, fr) ==
    IF fr.pc = "yield_done"
    THEN [frame |-> [fr EXCEPT !.pc = "ended"], out |-> <<>>]
    ELSE IF Len(fr.pending) > 1
    THEN [frame |-> [fr EXCEPT !.pending = Tail(@)],
          out |-> <<EventMessage(fr.pending[2])>>]
    ELSE AfterLoop(job, [fr EXCEPT !.pending = <<>>,
                                   !.last_sent_index = Len(job.status_updates)])

\* lines 253-259 and 276: GET /stream/{job_id}.  A new connection is opened
\* when the previous one is over.
StreamOpen(job_id) ==
    /\ stream.pc \in {"none", "ended", "disconnected"}
    /\ IF job_id \notin DOMAIN jobs
       THEN /\ response' = Reply("stream", job_id, 404, "Job ID not found.", <<>>)
            /\ UNCHANGED streamVars
       ELSE /\ response' = Reply("stream", job_id, 200, "text/event-stream", <<>>)
            /\ stream' = [job_id |-> job_id, pc |-> "poll", last_sent_index |-> 0,
                          pending |-> <<>>]
            /\ sent' = <<>>
    /\ UNCHANGED <<jobVars, retryVars, moduleVars>>

StreamStep(next) ==
    /\ stream' = next.frame
    /\ sent' = sent \o next.out
    /\ UNCHANGED <<jobVars, response, retryVars, moduleVars>>

\* lines 260-274: request.is_disconnected() answered (at the start of the
\* generator, or after asyncio.sleep(1)).
StreamPoll ==
    /\ stream.pc = "poll"
    /\ \E disconnected \in BOOLEAN :
        StreamStep(Poll(jobs[stream.job_id], stream, disconnected))

\* The response has written the yielded message and iterates on.
StreamResume ==
    /\ stream.pc \in {"yield", "yield_done"}
    /\ StreamStep(Resumed(jobs[stream.job_id], stream))

\* =========================================================== specifications
NoReply == Reply("none", None, 0, "", <<>>)

InitJobs ==
    /\ jobs = <<>>
    /\ task = <<>>
    /\ calls = <<>>
    /\ uuids = JobIds
    /\ stream = NoStream
    /\ sent = <<>>
    /\ response = NoReply

Init ==
    /\ InitJobs
    /\ Configured
    /\ retry = NoCall
    /\ outcomes = <<>>
    /\ sleeps = <<>>

Next ==
    \/ Upload
    \/ \E job_id \in DOMAIN jobs : TaskStart(job_id) /\ UNCHANGED calls
    \/ \E job_id \in DOMAIN jobs : TaskCallReturns(job_id) /\ UNCHANGED calls
    \/ \E job_id \in DOMAIN jobs : TaskCallRaises(job_id) /\ UNCHANGED calls
    \/ \E job_id \in DOMAIN jobs : TaskSleepReturns(job_id) /\ UNCHANGED calls
    \/ \E job_id \in DOMAIN jobs : TaskPauseReturns(job_id) /\ UNCHANGED calls
    \/ \E job_id \in JobIds : Download(job_id)
    \/ \E job_id \in JobIds : StreamOpen(job_id)
    \/ StreamPoll
    \/ StreamResume

Spec == Init /\ [][Next]_vars

\* A direct invocation of the wrapper, with no job in the store.
InitRetry == InitJobs /\ Configured /\ RetryInit

NextRetry ==
    \/ RetryCallReturns /\ UNCHANGED <<jobVars, streamVars, response, moduleVars>>
    \/ RetryCallRaises /\ UNCHANGED <<jobVars, streamVars, response, moduleVars>>
    \/ RetrySleepReturns /\ UNCHANGED <<jobVars, streamVars, response, moduleVars>>

SpecRetry == InitRetry /\ [][NextRetry]_vars

\* The event loop runs every coroutine that is ready: a scheduled background
\* task starts, a completion call and a sleep return, a generator that was
\* asked for its next item goes on.
FairSpec ==
    /\ Spec
    /\ WF_vars(\E job_id \in JobIds :
                  job_id \in DOMAIN jobs /\ TaskStart(job_id) /\ UNCHANGED calls)
    /\ WF_vars(\E job_id \in JobIds :
                  /\ job_id \in DOMAIN jobs
                  /\ (TaskCallReturns(job_id) \/ TaskCallRaises(job_id))
                  /\ UNCHANGED calls)
    /\ WF_vars(\E job_id \in JobIds :
                  job_id \in DOMAIN jobs /\ TaskSleepReturns(job_id) /\ UNCHANGED calls)
    /\ WF_vars(\E job_id \in JobIds :
                  job_id \in DOMAIN jobs /\ TaskPauseReturns(job_id) /\ UNCHANGED calls)
    /\ WF_vars(StreamPoll)
    /\ WF_vars(StreamResume)

\* Two clients: uuid4 gives each upload its own identifier, and each client
\* uploads one document in one form field (or none), so that two orchestrators run interleaved on the loop
\* while either job is streamed and downloaded.
TwoJobIds == {"1b4e28ba-2fa1-11d2", "6ba7b810-9dad-11d1"}

SingleFileRequests ==
    {fields \in UploadRequests :
        Len(KeepNamed(fields)) <= 1 /\ \A i \in 1 .. 4 : fields[i] # EmptyNamed}

InitTwo ==
    /\ jobs = <<>>
    /\ task = <<>>
    /\ calls = <<>>
    /\ uuids = TwoJobIds
    /\ stream = NoStream
    /\ sent = <<>>
    /\ response = NoReply
    /\ retry = NoCall
    /\ outcomes = <<>>
    /\ sleeps = <<>>
    /\ Configured

NextTwo ==
    \/ UploadOf(SingleFileRequests)
    \/ \E job_id \in DOMAIN jobs : TaskStart(job_id) /\ UNCHANGED calls
    \/ \E job_id \in DOMAIN jobs : TaskCallReturns(job_id) /\ UNCHANGED calls
    \/ \E job_id \in DOMAIN jobs : TaskCallRaises(job_id) /\ UNCHANGED calls
    \/ \E job_id \in DOMAIN jobs : TaskSleepReturns(job_id) /\ UNCHANGED calls
    \/ \E job_id \in DOMAIN jobs : TaskPauseReturns(job_id) /\ UNCHANGED calls
    \/ \E job_id \in TwoJobIds : Download(job_id)
    \/ \E job_id \in TwoJobIds : StreamOpen(job_id)
    \/ StreamPoll
    \/ StreamResume

SpecTwo == InitTwo /\ [][NextTwo]_vars

\* The jobs' orchestrators under observation: every completion call they
\* make is logged.
NextObserved ==
    \/ Upload
    \/ \E job_id \in DOMAIN jobs : TaskStart(job_id) /\ Observed(job_id)
    \/ \E job_id \in DOMAIN jobs : TaskCallReturns(job_id) /\ Observed(job_id)
    \/ \E job_id \in DOMAIN jobs : TaskCallRaises(job_id) /\ Observed(job_id)
    \/ \E job_id \in DOMAIN jobs : TaskSleepReturns(job_id) /\ Observed(job_id)
    \/ \E job_id \in DOMAIN jobs : TaskPauseReturns(job_id) /\ Observed(job_id)

SpecObserved == Init /\ [][NextObserved]_vars

\* The process starts in any environment, with an empty store.
InitStartup ==
    /\ InitJobs
    /\ retry = NoCall
    /\ outcomes = <<>>
    /\ sleeps = <<>>
    /\ environ \in [EnvNames -> EnvValues]
    /\ process = Importing

NextStartup == ModuleImport

SpecStartup == InitStartup /\ [][NextStartup]_vars

\* =================================================================== claims
Events(job_id) == jobs[job_id].status_updates
Kinds(job_id, kinds) == {i \in 1 .. Len(Events(job_id)) : Events(job_id)[i].type \in kinds}
Invoked(job_id) == job_id \in DOMAIN jobs /\ task[job_id].pc # "scheduled"
IsPrefix(a, b) == Len(a) <= Len(b) /\ SubSeq(b, 1, Len(a)) = a

\* C1: is_complete of a new job is false, it never goes back from true to
\* false, and once the orchestrator of a job has been invoked the flag
\* eventually becomes true, on every path.
C1_CompletesOnce ==
    /\ [][\A job_id \in DOMAIN jobs' :
            /\ job_id \notin DOMAIN jobs => ~jobs'[job_id].is_complete
            /\ (job_id \in DOMAIN jobs /\ jobs[job_id].is_complete)
                   => jobs'[job_id].is_complete]_vars
    /\ \A job_id \in JobIds :
           Invoked(job_id) ~> (job_id \in DOMAIN jobs /\ jobs[job_id].is_complete)

\* A job has completed with an error event.
C1_Witness ==
    \E job_id \in DOMAIN jobs :
        jobs[job_id].is_complete /\ Kinds(job_id, {"error"}) # {}

\* The messages a connection has sent before 'done'.
SentEvents ==
    IF sent # <<>> /\ sent[Len(sent)] = DoneMessage
    THEN SubSeq(sent, 1, Len(sent) - 1) ELSE sent

\* C2: when a stream has emitted 'done', the messages it emitted before are
\* the job's whole event sequence from index 0, each event once, in append
\* order.
C2_StreamDeliversAll ==
    stream.pc \in {"yield_done", "ended"} =>
        SentEvents = [i \in 1 .. Len(Events(stream.job_id)) |->
                         EventMessage(Events(stream.job_id)[i])]

\* C3: a job has at most one 'report' or 'error' event, and a complete job
\* has exactly one, as the last event of its sequence.
C3_OneTerminalEvent ==
    \A job_id \in DOMAIN jobs :
        /\ Cardinality(Kinds(job_id, {"report", "error"})) <= 1
        /\ jobs[job_id].is_complete =>
               Kinds(job_id, {"report", "error"}) = {Len(Events(job_id))}

\* A job has completed with a report event.
C3_Witness ==
    \E job_id \in DOMAIN jobs :
        jobs[job_id].is_complete /\ Kinds(job_id, {"report"}) # {}

SummaryExhausted(job_id) ==
    /\ job_id \in DOMAIN jobs
    /\ task[job_id].pc = "finished"
    /\ task[job_id].call.status = "raised"
    /\ Len(task[job_id].all_summaries) < Len(jobs[job_id].files)

\* C5: after a summary call ran out of attempts the job has no 'report'
\* event, no report_content, and Download answers 404.
C5_SummaryFailureNoReport ==
    \A job_id \in JobIds :
        SummaryExhausted(job_id) =>
            /\ Kinds(job_id, {"report"}) = {}
            /\ jobs[job_id].report_content = None
            /\ download_report(job_id).status = 404
            /\ (response.request = "download" /\ response.job_id = job_id)
                  => response.status = 404

\* A download was answered after the second summary of a job failed.
C5_Witness ==
    \E job_id \in JobIds :
        /\ SummaryExhausted(job_id)
        /\ Len(task[job_id].all_summaries) = 1
        /\ response.request = "download" /\ response.job_id = job_id

\* C6: while is_complete is false, report_content is unset and Download
\* answers 404; a download that was answered with the report was answered
\* for a complete job.
C6_NoReportBeforeComplete ==
    \A job_id \in DOMAIN jobs :
        /\ ~jobs[job_id].is_complete =>
              /\ jobs[job_id].report_content = None
              /\ download_report(job_id).status = 404
        /\ (response.request = "download" /\ response.job_id = job_id
                /\ response.status = 200)
              => jobs[job_id].is_complete

\* A download was answered while the final completion call was in flight.
C6_Witness ==
    \E job_id \in DOMAIN jobs :
        /\ task[job_id].pc = "final"
        /\ ~jobs[job_id].is_complete
        /\ response.request = "download" /\ response.job_id = job_id
        /\ response.status = 404

\* C7: in every step the event sequence of every job is a prefix of what it
\* is after the step.
C7_AppendOnly ==
    [][\A job_id \in DOMAIN jobs :
          /\ job_id \in DOMAIN jobs'
          /\ IsPrefix(Events(job_id), jobs'[job_id].status_updates)]_vars

\* A job has a sequence of five events (one document, success).
C7_Witness ==
    \E job_id \in DOMAIN jobs :
        Len(Events(job_id)) >= 5 /\ stream.pc = "poll" /\ stream.last_sent_index > 0

\* content if content else ""
Returned(value) == IF value \in {None, ""} THEN "" ELSE value

\* C8: when the wrapper (max_attempts >= 1) returns after N attempts of which
\* the first N-1 failed, it returns the value of the N-th, N <= max_attempts,
\* and it has slept N-1 times, once after each failed attempt, the k-th sleep
\* (from 0) for 2^k to 2^k + 1 seconds, so no sleep is shorter than the one
\* before it.
C8_RetryThenSuccess ==
    retry.max_attempts >= 1 =>
        /\ retry.status \in {"calling", "sleeping"} =>
              /\ \A k \in 1 .. Len(outcomes) : ~outcomes[k].ok
              /\ Len(sleeps) = Len(outcomes)
              /\ Len(outcomes) = retry.attempt + (IF retry.status = "sleeping" THEN 1 ELSE 0)
        /\ retry.status = "returned" =>
              LET N == Len(outcomes) IN
              /\ N >= 1 /\ N <= retry.max_attempts
              /\ \A k \in 1 .. N - 1 : ~outcomes[k].ok
              /\ outcomes[N].ok
              /\ retry.result = Returned(outcomes[N].value)
              /\ Len(sleeps) = N - 1
              /\ \A k \in 0 .. N - 2 :
                    /\ sleeps[k + 1] >= Pow2(k) * JitterSteps
                    /\ sleeps[k + 1] <= (Pow2(k) + 1) * JitterSteps
              /\ \A k \in 1 .. N - 2 : sleeps[k + 1] >= sleeps[k]

\* The wrapper returned a text at the third attempt.
C8_Witness ==
    /\ retry.status = "returned" /\ retry.max_attempts >= 3
    /\ Len(outcomes) = 3 /\ Len(sleeps) = 2
    /\ retry.result # ""

\* C9: when the wrapper (max_attempts >= 1) raises, it has made exactly
\* max_attempts attempts, all failed, it raises the failure of the last one,
\* it has slept max_attempts - 1 times, and it does nothing more.
C9_RetryExhausted ==
    /\ [](retry.status = "raised" =>
            /\ retry.max_attempts >= 1
            /\ Len(outcomes) = retry.max_attempts
            /\ \A k \in 1 .. Len(outcomes) : ~outcomes[k].ok
            /\ retry.result = outcomes[Len(outcomes)].value
            /\ Len(sleeps) = retry.max_attempts - 1)
    /\ []((retry.max_attempts >= 1 /\ Len(outcomes) = retry.max_attempts
              /\ \A k \in 1 .. Len(outcomes) : ~outcomes[k].ok)
            => retry.status = "raised")
    /\ [][retry.status = "raised" => UNCHANGED retryVars]_vars

\* The wrapper raised after three failed attempts.
C9_Witness ==
    /\ retry.status = "raised" /\ retry.max_attempts = 3
    /\ Len(outcomes) = 3

\* The stream connection is over.
StreamOver == stream.pc \in {"ended", "disconnected"}
StreamOpened == stream.pc \in {"poll", "yield", "yield_done"}

\* C10: 'done' is sent only when the job is complete, once, as the last
\* message; a cycle that finds the client disconnected ends the stream with
\* no further message; nothing is sent on a connection that is over; and a
\* stream on a complete job ends, with 'done' unless the client disconnected.
C10_StreamTermination ==
    /\ []((\E i \in 1 .. Len(sent) : sent[i] = DoneMessage) =>
            /\ jobs[stream.job_id].is_complete
            /\ \A i \in 1 .. Len(sent) : sent[i] = DoneMessage => i = Len(sent))
    /\ [](stream.pc = "ended" => (sent # <<>> /\ sent[Len(sent)] = DoneMessage))
    /\ [](stream.pc = "disconnected" => \A i \in 1 .. Len(sent) : sent[i] # DoneMessage)
    /\ [][(StreamOpened /\ stream'.pc = "disconnected") => sent' = sent]_vars
    /\ [][(StreamOver /\ stream'.pc = stream.pc) => sent' = sent]_vars
    /\ (StreamOpened /\ jobs[stream.job_id].is_complete) ~> StreamOver

\* A stream has ended after sending three messages or more and 'done'.
C10_Witness ==
    stream.pc = "ended" /\ Len(sent) >= 4

\* A request with no file: every form field is absent or has an empty filename.
NoFilesSent(fields) == \A i \in 1 .. Len(fields) : fields[i] = NoFile \/ fields[i].filename = ""

\* C11: whatever the store holds, an upload request with no file (no field
\* sent, or every part with an empty filename) is answered 400 and creates no
\* job, schedules no orchestrator and leaves the job store as it was.
C11_NoFilesRejected ==
    \A fields \in UploadRequests :
        NoFilesSent(fields) =>
            \A job_id \in uuids \cup {None} :
                LET after == upload_files_for_processing(fields, job_id) IN
                /\ after.response.status = 400
                /\ after.response.job_id = None
                /\ after.jobs = jobs
                /\ after.task = task
                /\ after.uuids = uuids

\* An upload with no file was just rejected while the store held a job.
C11_Witness ==
    /\ response.request = "upload" /\ response.status = 400
    /\ DOMAIN jobs # {}

\* The orchestrator of job_id can take a step.
TaskReady(job_id) ==
    ENABLED (/\ \/ TaskStart(job_id) \/ TaskCallReturns(job_id) \/ TaskCallRaises(job_id)
                \/ TaskSleepReturns(job_id) \/ TaskPauseReturns(job_id)
             /\ UNCHANGED calls)

\* C12: a step that changes anything of a job (its documents, events,
\* is_complete or report_content) is a step of that job's own orchestrator: it
\* is no stream, download or upload step and no step of another job's
\* orchestrator, and it changes no other job.  A step in which the stream's
\* client is found disconnected changes no job and no orchestrator, and an
\* orchestrator that has not finished can always take its next step, whatever
\* the state of the stream.
C12_SingleWriter ==
    /\ [][\A job_id \in DOMAIN jobs :
            jobs'[job_id] # jobs[job_id] =>
                /\ task'[job_id] # task[job_id]
                /\ UNCHANGED <<uuids, stream, sent, response>>
                /\ DOMAIN jobs' = DOMAIN jobs
                /\ \A other \in DOMAIN jobs \ {job_id} :
                      jobs'[other] = jobs[other] /\ task'[other] = task[other]]_vars
    /\ [][(stream.pc # "disconnected" /\ stream'.pc = "disconnected") =>
            UNCHANGED <<jobs, task>>]_vars
    /\ [](\A job_id \in DOMAIN jobs : task[job_id].pc # "finished" => TaskReady(job_id))

\* Two jobs are in the store; the stream of one was dropped by its client
\* before all its events were sent and that job went on to completion, while
\* the orchestrator of the other is under way.
C12_Witness ==
    /\ stream.pc = "disconnected"
    /\ \E job_id \in DOMAIN jobs, other \in DOMAIN jobs :
        /\ other # job_id
        /\ stream.job_id = job_id
        /\ jobs[job_id].is_complete
        /\ Len(sent) < Len(Events(job_id))
        /\ ~jobs[other].is_complete
        /\ Events(other) # <<>>

\* C13: for every max_attempts, zero and negative ones included, when the
\* wrapper has returned the empty string an underlying call was made and the
\* last one succeeded with empty or absent content.
C13_EmptyOnlyAfterSuccess ==
    (retry.status = "returned" /\ retry.result = "") =>
        /\ outcomes # <<>>
        /\ outcomes[Len(outcomes)].ok
        /\ outcomes[Len(outcomes)].value \in {None, ""}

\* C14: once the module is imported, if any of the endpoint URL, the API key,
\* the deployment name or the API version is missing from the environment,
\* the initialization has failed its check and the process has exited.
C14_MissingVariableExits ==
    (process.pc # "importing" /\ \E name \in EnvNames : environ[name] = None) =>
        (process.pc = "exited" /\ process.check = "failed")

Status(message) == [type |-> "status", content |-> message]

\* The events of a job up to and including the status naming its n-th document.
EventsUpTo(job_id, n) ==
    <<Status("Starting consolidation process. Summarizing individual files...")>>
    \o [i \in 1 .. n |->
          Status("Summarizing file: " \o jobs[job_id].files[i].filename \o "...")]

IsTokenCountStatus(event) ==
    /\ event.type = "status"
    /\ StartsWith(event.content, "Final prompt created with ~")
    /\ EndsWith(event.content, " tokens. Sending to OpenAI...")

\* C15: a job with n documents whose calls all succeeded, the final one with a
\* text, ends with exactly n + 4 events: the 'starting' status, one status
\* naming each document in upload order, the 'generating consolidated report'
\* status, the token-count status and the 'report' event.  While the summary
\* call of the i-th document is under way the last event is the status naming
\* it, and while the final call is under way the last one is the token-count
\* status.
C15_SuccessSequence ==
    \A job_id \in DOMAIN jobs :
        LET n == Len(jobs[job_id].files)
            events == Events(job_id)
        IN
        /\ task[job_id].pc = "summary" =>
              events = EventsUpTo(job_id, task[job_id].idx)
        /\ task[job_id].pc = "final" =>
              /\ Len(events) = n + 3
              /\ Len(task[job_id].all_summaries) = n
              /\ IsTokenCountStatus(events[n + 3])
        /\ Kinds(job_id, {"report"}) # {} =>
              /\ n \in 1 .. 4
              /\ Len(events) = n + 4
              /\ SubSeq(events, 1, n + 1) = EventsUpTo(job_id, n)
              /\ events[n + 2] =
                    Status("All summaries created. Generating final consolidated report...")
              /\ IsTokenCountStatus(events[n + 3])
              /\ events[n + 4].type = "report"

\* A job of two documents succeeded.
C15_Witness ==
    \E job_id \in DOMAIN jobs :
        /\ Len(jobs[job_id].files) = 2
        /\ task[job_id].pc = "finished"
        /\ Kinds(job_id, {"report"}) # {}

\* The wrapper invoked for a document's summary has raised.
SummaryRaised(job_id) ==
    /\ task[job_id].call.status = "raised"
    /\ task[job_id].call.max_attempts = SUMMARY_ATTEMPTS

\* C16: when the summary call of document i has failed after its retries, the
\* orchestrator has finished: the job's events are those up to the status
\* naming document i followed by one 'error' event carrying the failure, the
\* job is complete and has no report, the summaries collected are those of
\* the documents before i, and from then on the orchestrator makes no call
\* and appends no event.
C16_AbortOnFirstFailure ==
    /\ [](\A job_id \in DOMAIN jobs :
            SummaryRaised(job_id) =>
                LET i == task[job_id].idx IN
                /\ task[job_id].pc = "finished"
                /\ Len(task[job_id].all_summaries) = i - 1
                /\ Events(job_id) = EventsUpTo(job_id, i) \o
                      <<[type |-> "error",
                         content |-> "An error occurred during report processing: "
                                       \o task[job_id].call.result]>>
                /\ jobs[job_id].is_complete
                /\ jobs[job_id].report_content = None)
    /\ [][\A job_id \in DOMAIN jobs :
            SummaryRaised(job_id) =>
                task'[job_id] = task[job_id] /\ jobs'[job_id] = jobs[job_id]]_vars

\* The summary call of the first of two documents failed after its retries,
\* and the job was polled for its report afterwards.
C16_Witness ==
    \E job_id \in DOMAIN jobs :
        /\ SummaryRaised(job_id)
        /\ task[job_id].idx = 1
        /\ Len(jobs[job_id].files) = 2
        /\ response.request = "download" /\ response.status = 404

\* The final completion call succeeded with an empty text.
FinalReturnedEmpty(job_id) ==
    /\ task[job_id].call.status = "returned"
    /\ task[job_id].call.max_attempts = FINAL_ATTEMPTS
    /\ task[job_id].call.result = ""

\* C17: when the final call has succeeded with an empty text the job has
\* failed: report_content is unset, the sequence has no 'report' event and one
\* 'error' event, its last, whose message says that the AI returned an empty
\* response, and the job is complete.
C17_EmptyFinalFails ==
    \A job_id \in DOMAIN jobs :
        FinalReturnedEmpty(job_id) =>
            LET events == Events(job_id) IN
            /\ task[job_id].pc = "finished"
            /\ jobs[job_id].report_content = None
            /\ Kinds(job_id, {"report"}) = {}
            /\ Kinds(job_id, {"error"}) = {Len(events)}
            /\ events[Len(events)].content =
                  "An error occurred during report processing: " \o EmptyResponseMessage
            /\ StartsWith(EmptyResponseMessage, "The AI returned an empty response.")
            /\ jobs[job_id].is_complete

\* The final call of a job returned an empty text and a download of the job
\* was then refused.
C17_Witness ==
    \E job_id \in DOMAIN jobs :
        /\ FinalReturnedEmpty(job_id)
        /\ response.request = "download" /\ response.job_id = job_id
        /\ response.status = 404

\* The completion calls logged for job_id that are attempts of the given stage
\* for the given document, and those that open a wrapper invocation.
Attempts(job_id, stage, document) ==
    {k \in 1 .. Len(calls[job_id]) :
        calls[job_id][k].stage = stage /\ calls[job_id][k].document = document}
Invocations(job_id, stage, document) ==
    {k \in Attempts(job_id, stage, document) : calls[job_id][k].attempt = 0}

\* C18: of the completion calls the orchestrator of a job with n documents has
\* made, at most 3 are for the summary of any one document and at most 5 for
\* the final report, at most 3n + 5 in all; the wrapper was invoked once for
\* each document reached so far, for no other, and at most once for the final
\* report; and every call for the final report was made with all n summaries
\* collected and no call for a summary after it.
C18_AttemptBudget ==
    \A job_id \in DOMAIN jobs :
        LET n == Len(jobs[job_id].files)
            log == calls[job_id]
        IN
        /\ \A k \in 1 .. Len(log) :
              \/ log[k].stage = "summary" /\ log[k].document \in 1 .. n
              \/ log[k].stage = "final" /\ log[k].document = n
        /\ \A i \in 1 .. n :
              /\ Cardinality(Attempts(job_id, "summary", i)) <= 3
              /\ Cardinality(Invocations(job_id, "summary", i)) =
                    IF i <= task[job_id].idx THEN 1 ELSE 0
        /\ Cardinality(Attempts(job_id, "final", n)) <= 5
        /\ Cardinality(Invocations(job_id, "final", n)) <= 1
        /\ Len(log) <= 3 * n + 5
        /\ \A k \in 1 .. Len(log) :
              log[k].stage = "final" =>
                  /\ log[k].summaries = n
                  /\ \A later \in k .. Len(log) : log[later].stage = "final"

\* A job of two documents has used its whole budget: three attempts for each
\* summary and five for the final report.
C18_Witness ==
    \E job_id \in DOMAIN jobs :
        /\ Len(jobs[job_id].files) = 2
        /\ Len(calls[job_id]) = 11
        /\ task[job_id].pc = "finished"

\* C19: in every state report_content of a job is set exactly when its event
\* sequence contains a 'report' event, and it is unset when the sequence
\* contains an 'error' event; once set it keeps its value in every step, and
\* every new answer to a Download request for the job from then on is the same
\* document, the rendering of that value.
C19_ReportContentStable ==
    /\ [](\A job_id \in DOMAIN jobs :
            /\ jobs[job_id].report_content # None <=> Kinds(job_id, {"report"}) # {}
            /\ Kinds(job_id, {"error"}) # {} => jobs[job_id].report_content = None)
    /\ [][\A job_id \in DOMAIN jobs :
            jobs[job_id].report_content # None =>
                /\ jobs'[job_id].report_content = jobs[job_id].report_content
                /\ (response' # response /\ response'.request = "download"
                        /\ response'.job_id = job_id) =>
                      /\ response'.status = 200
                      /\ response'.document =
                            create_docx_report(jobs[job_id].report_content)]_vars

\* The report of a job is set, a stream of the job has ended with 'done', and
\* the latest response is the download of the report.
C19_Witness ==
    \E job_id \in DOMAIN jobs :
        /\ jobs[job_id].report_content # None
        /\ stream.pc = "ended"
        /\ response = download_report(job_id)

====
